---- MODULE Spec2Model ----
(***************************************************************************)
(* Health checking and upstream selection of dnsredir (healthcheck.go).    *)
(*                                                                         *)
(* One HealthCheck owns a pool of UpstreamHost values.  Start spawns a     *)
(* worker goroutine that dispatches one Check goroutine per host at once   *)
(* and again on every tick; each Check probes its host and updates the     *)
(* host's atomic fails counter.  Select, Exchange and SetTLSConfig are     *)
(* called from other goroutines while the probes run.                      *)
(***************************************************************************)
EXTENDS Integers, Sequences, FiniteSets, TLC

(* ------------------------------ bounds --------------------------------- *)

\* Largest pool the general specifications build.
MaxHosts == 2

\* Ticks the ticker delivers; the worker dispatches at most 1 + MaxTicks cycles.
MaxTicks == 1

(* ------------------------- program constants --------------------------- *)

\* fails is a uint32.  TLC's integers stop short of 2^32, so a uint32 is kept
\* as two 16-bit halves, [hi, lo] standing for hi * 2^16 + lo.
Half == 65536

U32(h, l) == [hi |-> h, lo |-> l]

U32Zero == U32(0, 0)

U32One == U32(0, 1)

U32Max == U32(Half - 1, Half - 1)

\* x + y in uint32 arithmetic: the carry out of the high half is lost.
U32Add(x, y) ==
    LET l == x.lo + y.lo
        h == x.hi + y.hi + (l \div Half)
    IN  U32(h % Half, l % Half)

\* x + 1 = y in the integers (no wrap).
U32IsSucc(x, y) ==
    \/ x.lo < Half - 1 /\ y = U32(x.hi, x.lo + 1)
    \/ x.lo = Half - 1 /\ x.hi < Half - 1 /\ y = U32(x.hi + 1, 0)

Nil == "nil"

\* A *UpstreamHost is modelled by its index in hc.hosts; 0 is the nil pointer.
NoHost == 0

(* ------------------------------- state --------------------------------- *)

VARIABLES
    hosts,          \* hc.hosts: sequence of UpstreamHost (fails, downFunc, c)
    policy,         \* hc.policy: Nil or a configured Policy
    spray,          \* hc.spray: Nil or a configured Policy
    maxFails,       \* hc.maxFails
    checkInterval,  \* hc.checkInterval
    transport,      \* the Transport every host points to
    reach,          \* environment: what the network lets a probe of each host see
    life,           \* the owner's position: "new", "running", "stopping", "stopped"
    stopChan,       \* hc.stopChan: Nil, "open" or "closed"
    wg,             \* hc.wg counter
    worker,         \* the worker goroutine: "none", "spawned", "loop", "exited"
    workers,        \* goroutines spawned by Start
    tickerC,        \* ticker.C (capacity 1) holds a tick
    fired,          \* ticks the ticker has put into ticker.C
    cycles,         \* calls of healthCheck so far
    inflight,       \* per host: the cycles whose Check goroutine has not finished
    lastProbe,      \* the Check that finished last: what c.Exchange gave, whether Check
                    \* returned an error, whether Stop had returned by then
    aged,           \* a long outage (LongOutage) has been run through
    streak,         \* per host: failed Checks finished since the last one that succeeded
    sel,            \* the Select call in progress
    ex,             \* the Exchange call in progress
    tls             \* the SetTLSConfig call in progress

cfgVars  == <<policy, spray, maxFails, checkInterval, reach>>
lifeVars == <<life, stopChan, wg, worker, workers, tickerC, fired, cycles>>
vars == <<hosts, policy, spray, maxFails, checkInterval, transport, reach,
          life, stopChan, wg, worker, workers, tickerC, fired, cycles,
          inflight, lastProbe, aged, streak, sel, ex, tls>>

Pool == 1..Len(hosts)

(* --------------------------- the environment --------------------------- *)

\* What uh.c.Exchange can hand back: an error or none, and a message or nil.
NilMsg == [present |-> FALSE, Response |-> FALSE, Opcode |-> "None"]

Msgs == {NilMsg} \cup [present : {TRUE}, Response : BOOLEAN, Opcode : {"Query", "Notify"}]

Outcomes == [err : BOOLEAN, msg : Msgs]

\* An unreachable host times out with no message; a reachable one answers the
\* query cleanly; a flaky one can produce anything.
RECURSIVE OutcomesOf(_)
OutcomesOf(r) ==
    CASE r = "dead"  -> {[err |-> TRUE, msg |-> NilMsg]}
      [] r = "alive" -> {[err |-> FALSE, msg |-> [present |-> TRUE, Response |-> TRUE, Opcode |-> "Query"]]}
      [] r = "updown" -> OutcomesOf("dead") \cup OutcomesOf("alive")
      [] OTHER       -> Outcomes

(* ----------------------------- UpstreamHost ---------------------------- *)

NewHost(df) == [fails |-> U32Zero, downFunc |-> df, c |-> [Net |-> "", TLSConfig |-> Nil]]

\* send clearing the error for any message that came back.
sendAnyMsg(err, msg) ==
    IF err /\ msg # NilMsg THEN FALSE ELSE err

\* send: an error that comes with a sane message is cleared.
send(err, msg) ==
    IF err /\ msg # NilMsg
    THEN IF msg.Response \/ msg.Opcode = "Query" THEN FALSE ELSE err
    ELSE err

\* atomic.AddUint32(&uh.fails, 1)
AddUint32(fails, delta) ==
    U32Add(fails, delta)

\* Check without the reset on success.
CheckFailsNoReset(fails, err, msg) ==
    IF send(err, msg) THEN AddUint32(fails, U32One) ELSE fails

\* Check's write to fails: the atomic add when send returned an error, else
\* atomic.StoreUint32(&uh.fails, 0).
CheckFails(fails, err, msg) ==
    IF send(err, msg) THEN AddUint32(fails, U32One) ELSE U32Zero

\* Down with the threshold hc.maxFails applied to the counter.
DownMaxFails(uh) ==
    IF uh.downFunc = Nil
    THEN {uh.fails.hi > 0 \/ uh.fails.lo >= maxFails}
    ELSE BOOLEAN

\* What the call uh.downFunc(uh) can give: a custom downFunc is any
\* side-effect-free predicate; "none" when there is no downFunc to call.
DownFunc(uh) ==
    IF uh.downFunc = Nil THEN {"none"} ELSE {"true", "false"}

\* Down falling back to the counter when the downFunc returned false.
DownOfFallback(uh, r) ==
    IF r = "true" THEN TRUE ELSE uh.fails # U32Zero

\* Down, given what the downFunc returned: without a downFunc the host is down
\* once fails > 0, with one Down returns what it returned.
DownOf(uh, r) ==
    IF uh.downFunc = Nil THEN uh.fails # U32Zero ELSE r = "true"

\* Down: the values a call of uh.Down() can return.
Down(uh) ==
    {DownOf(uh, r) : r \in DownFunc(uh)}

\* Dial with preferUdp looked at before forceTcp.
DialProtoUdpFirst(t, proto) ==
    CASE t.tlsConfig # Nil -> "tcp-tls"
      [] t.preferUdp       -> "udp"
      [] t.forceTcp        -> "tcp"
      [] OTHER             -> proto

\* Dial: the protocol dialled for a caller asking for proto.
DialProto(t, proto) ==
    CASE t.tlsConfig # Nil -> "tcp-tls"
      [] t.forceTcp        -> "tcp"
      [] t.preferUdp       -> "udp"
      [] OTHER             -> proto

\* SetTLSConfig's three writes, in program order.
SetTLSConfigNet(uh) ==
    [uh EXCEPT !.c.Net = "tcp-tls"]

SetTLSConfigClient(uh, config) ==
    [uh EXCEPT !.c.TLSConfig = config]

SetTLSConfigTransport(t, config) ==
    [t EXCEPT !.tlsConfig = config]

(* ------------------------------- Policy -------------------------------- *)

\* Random.Select, one host at a time: a host seen not Down joins the candidates
\* and may replace the pick made so far (the first candidate always does).
RandomPicks(pick, i) ==
    IF pick = NoHost THEN {i} ELSE {pick, i}

\* Spray.Select: any host of the pool, whatever its state.
SpraySelect(n) ==
    IF n = 0 THEN {NoHost} ELSE 1..n

\* A configured primary policy is any implementation of Policy: it may return
\* any host of the pool or nil.
PolicySelect(n) ==
    0..n

(* ----------------------------- HealthCheck ----------------------------- *)

\* healthCheck: one Check goroutine per host of the pool, none waited for.
healthCheck(inf, cycle) ==
    [h \in DOMAIN inf |-> inf[h] \cup {cycle}]

\* Every Check of the first cycle has finished.
FirstCycleDone ==
    cycles >= 1 /\ \A h \in Pool : 1 \notin inflight[h]

\* Start: make(chan), and the worker goroutine when checkInterval != 0.
StartSpawns(interval) ==
    IF interval # 0 THEN 1 ELSE 0

Start ==
    /\ life = "new"
    /\ life' = "running"
    /\ stopChan' = "open"
    /\ wg' = wg + StartSpawns(checkInterval)
    /\ workers' = workers + StartSpawns(checkInterval)
    /\ worker' = IF StartSpawns(checkInterval) > 0 THEN "spawned" ELSE worker
    /\ UNCHANGED <<hosts, transport, cfgVars, tickerC, fired, cycles, inflight,
                   lastProbe, aged, streak, sel, ex, tls>>

\* Stop, first half: close(hc.stopChan).
StopClose ==
    /\ life = "running"
    /\ life' = "stopping"
    /\ stopChan' = "closed"
    /\ UNCHANGED <<hosts, transport, cfgVars, wg, worker, workers, tickerC, fired,
                   cycles, inflight, lastProbe, aged, streak, sel, ex, tls>>

\* A Wait that returns whatever the counter is.
WaitDoneAlways(n) ==
    n >= 0

\* Stop, second half: hc.wg.Wait() returns once the counter is zero.
WaitDone(n) ==
    n = 0

\* Stop joining the probes as well as the worker.
StopWaitJoins ==
    /\ life = "stopping"
    /\ WaitDone(wg)
    /\ \A h \in Pool : inflight[h] = {}
    /\ life' = "stopped"
    /\ UNCHANGED <<hosts, transport, cfgVars, stopChan, wg, worker, workers, tickerC,
                   fired, cycles, inflight, lastProbe, aged, streak, sel, ex, tls>>

StopWait ==
    /\ life = "stopping"
    /\ WaitDone(wg)
    /\ life' = "stopped"
    /\ UNCHANGED <<hosts, transport, cfgVars, stopChan, wg, worker, workers, tickerC,
                   fired, cycles, inflight, lastProbe, aged, streak, sel, ex, tls>>

\* healthCheckWorker without the initial healthCheck.
WorkerInitNoKick ==
    /\ worker = "spawned"
    /\ worker' = "loop"
    /\ UNCHANGED <<hosts, transport, cfgVars, life, stopChan, wg, workers, tickerC,
                   fired, cycles, inflight, lastProbe, aged, streak, sel, ex, tls>>

\* healthCheckWorker, up to the loop: the initial healthCheck and time.NewTicker.
WorkerInit ==
    /\ worker = "spawned"
    /\ worker' = "loop"
    /\ cycles' = cycles + 1
    /\ inflight' = healthCheck(inflight, cycles + 1)
    /\ UNCHANGED <<hosts, transport, cfgVars, life, stopChan, wg, workers, tickerC,
                   fired, lastProbe, aged, streak, sel, ex, tls>>

\* The ticker puts a tick into ticker.C (a tick that finds it full is dropped
\* and changes nothing).  The ticker is never stopped.
Tick ==
    /\ worker \in {"loop", "exited"}
    /\ ~tickerC
    /\ fired < MaxTicks
    /\ tickerC' = TRUE
    /\ fired' = fired + 1
    /\ UNCHANGED <<hosts, transport, cfgVars, life, stopChan, wg, worker, workers,
                   cycles, inflight, lastProbe, aged, streak, sel, ex, tls>>

\* select, case <-ticker.C.
WorkerTick ==
    /\ worker = "loop"
    /\ tickerC
    /\ tickerC' = FALSE
    /\ cycles' = cycles + 1
    /\ inflight' = healthCheck(inflight, cycles + 1)
    /\ UNCHANGED <<hosts, transport, cfgVars, life, stopChan, wg, worker, workers,
                   fired, lastProbe, aged, streak, sel, ex, tls>>

\* The worker returning without hc.wg.Done().
WorkerStopNoDone ==
    /\ worker = "loop"
    /\ stopChan = "closed"
    /\ worker' = "exited"
    /\ UNCHANGED <<hosts, transport, cfgVars, life, stopChan, wg, workers, tickerC, fired,
                   cycles, inflight, lastProbe, aged, streak, sel, ex, tls>>

\* select, case <-hc.stopChan: return, and the deferred hc.wg.Done().
WorkerStop ==
    /\ worker = "loop"
    /\ stopChan = "closed"
    /\ worker' = "exited"
    /\ wg' = wg - 1
    /\ UNCHANGED <<hosts, transport, cfgVars, life, stopChan, workers, tickerC, fired,
                   cycles, inflight, lastProbe, aged, streak, sel, ex, tls>>

\* A count of probes, not cut to 32 bits: [hi, lo] stands for hi * 2^16 + lo,
\* and hi can pass 2^16 - 1.
CountZero == [hi |-> 0, lo |-> 0]

CountAdd(x, y) ==
    LET l == x.lo + y.lo
    IN  [hi |-> x.hi + y.hi + (l \div Half), lo |-> l % Half]

\* The failed Checks of a host since its last success, after one more Check.
StreakAfter(n, failed) ==
    IF failed THEN CountAdd(n, U32One) ELSE CountZero

\* One Check goroutine runs to its end: c.Exchange, send's classification and
\* the atomic write to the host's own counter.
Check(h) ==
    /\ inflight[h] # {}
    /\ \E cyc \in inflight[h], o \in OutcomesOf(reach[h]) :
        /\ inflight' = [inflight EXCEPT ![h] = @ \ {cyc}]
        /\ hosts' = [hosts EXCEPT ![h].fails = CheckFails(@, o.err, o.msg)]
        /\ lastProbe' = [err |-> o.err, msg |-> o.msg, ret |-> send(o.err, o.msg),
                         late |-> life = "stopped"]
        /\ streak' = [streak EXCEPT ![h] = StreakAfter(@, send(o.err, o.msg))]
    /\ UNCHANGED <<transport, cfgVars, lifeVars, aged, sel, ex, tls>>

\* Rounds of a long outage: tick, cycle and the completion of its probes,
\* 2^32 - 2 times over.
OutageRounds == U32(Half - 1, Half - 2)

\* fails of a host after rounds probes that all failed, or whose last succeeded.
OutageFails(fails, failed, rounds) ==
    IF failed THEN U32Add(fails, rounds) ELSE U32Zero

\* The worker loop run OutageRounds times with no probe left in flight: every
\* round's Check failed on the hosts of down, and the last one succeeded on
\* the others.
LongOutage ==
    /\ worker = "loop"
    /\ stopChan = "open"
    /\ ~aged
    /\ Pool # {}
    /\ \A h \in Pool : inflight[h] = {}
    /\ \E down \in SUBSET Pool :
        /\ \A h \in Pool : reach[h] = "dead" => h \in down
        /\ \A h \in Pool : reach[h] = "alive" => h \notin down
        /\ hosts' = [h \in Pool |->
                        [hosts[h] EXCEPT !.fails = OutageFails(@, h \in down, OutageRounds)]]
        /\ streak' = [h \in Pool |->
                        IF h \in down THEN CountAdd(streak[h], OutageRounds) ELSE CountZero]
    /\ aged' = TRUE
    /\ UNCHANGED <<transport, cfgVars, lifeVars, inflight, lastProbe, sel, ex, tls>>

(* ------------------------------- Select -------------------------------- *)

\* A Select call: where it stands, what its calls of Down() returned (obs for
\* a pool of one, with df what the downFunc returned to it; seenDown and upAt
\* for the all-down scan; up for Random), and what the policies it called
\* returned.
SelIdle ==
    [pc |-> "idle", i |-> 0, obs |-> FALSE, seenDown |-> {}, upAt |-> NoHost,
     df |-> "none", primary |-> "none", up |-> {}, pick |-> NoHost,
     sprayCalled |-> FALSE, sprayPick |-> NoHost, result |-> NoHost, after |-> FALSE]

\* Select, pool of one, without the look at hc.spray.
SelectSingleNoSpray(d, spr) ==
    IF d THEN NoHost ELSE 1

\* Select, pool of one: nil only when the host is down and there is no spray.
SelectSingle(d, spr) ==
    IF d /\ spr = Nil THEN NoHost ELSE 1

\* Select's tail without the spray policy.
SprayOrNilNever(s, spr, n) ==
    {[s EXCEPT !.pc = "done", !.result = NoHost]}

\* Select's tail: nil without a spray policy, else hc.spray.Select(pool).
SprayOrNil(s, spr, n) ==
    IF spr = Nil
    THEN {[s EXCEPT !.pc = "done", !.result = NoHost]}
    ELSE {[s EXCEPT !.pc = "done", !.result = r, !.sprayCalled = TRUE, !.sprayPick = r] :
            r \in SpraySelect(n)}

\* Select returning what the primary policy returned, nil included.
PolicyOrSprayNoFallback(s, h, spr, n) ==
    {[s EXCEPT !.pc = "done", !.result = h]}

\* Select after the primary policy returned h: h itself unless it is nil.
PolicyOrSpray(s, h, spr, n) ==
    IF h # NoHost
    THEN {[s EXCEPT !.pc = "done", !.result = h]}
    ELSE SprayOrNil(s, spr, n)

\* Select after the scan found host i not down: the default Random starts its
\* own pass over the pool, a configured policy is called.
PrimaryPolicy(s, pol, spr, n) ==
    IF pol = Nil
    THEN {[s EXCEPT !.pc = "random", !.i = 1, !.primary = "Random"]}
    ELSE UNION {PolicyOrSpray([s EXCEPT !.primary = "custom", !.pick = h], h, spr, n) :
                    h \in PolicySelect(n)}

\* Select handing an empty pool to the primary policy instead of scanning it.
SelectCallEmptyPrimary ==
    /\ sel.pc = "idle"
    /\ ex.pc = "idle"
    /\ sel' \in
        IF Len(hosts) = 1
        THEN {[SelIdle EXCEPT !.pc = "done", !.df = r, !.obs = DownOf(hosts[1], r),
                              !.result = SelectSingle(DownOf(hosts[1], r), spray),
                              !.after = FirstCycleDone] :
                r \in DownFunc(hosts[1])}
        ELSE IF Len(hosts) = 0
        THEN PrimaryPolicy([SelIdle EXCEPT !.after = FirstCycleDone], policy, spray, 0)
        ELSE {[SelIdle EXCEPT !.pc = "scan", !.i = 1, !.after = FirstCycleDone]}
    /\ UNCHANGED <<hosts, transport, cfgVars, lifeVars, inflight, lastProbe, aged, streak, ex, tls>>

\* Select is called by a request goroutine, which calls Exchange only after
\* it: a pool of one is decided at once, any other is scanned.
SelectCall ==
    /\ sel.pc = "idle"
    /\ ex.pc = "idle"
    /\ sel' \in
        IF Len(hosts) = 1
        THEN {[SelIdle EXCEPT !.pc = "done", !.df = r, !.obs = DownOf(hosts[1], r),
                              !.result = SelectSingle(DownOf(hosts[1], r), spray),
                              !.after = FirstCycleDone] :
                r \in DownFunc(hosts[1])}
        ELSE {[SelIdle EXCEPT !.pc = "scan", !.i = 1, !.after = FirstCycleDone]}
    /\ UNCHANGED <<hosts, transport, cfgVars, lifeVars, inflight, lastProbe, aged, streak, ex, tls>>

\* The all-down scan holding back while a probe is in flight.
SelectScanWaits ==
    /\ sel.pc = "scan"
    /\ \A h \in Pool : inflight[h] = {}
    /\ sel' \in
        IF sel.i > Len(hosts)
        THEN SprayOrNil(sel, spray, Len(hosts))
        ELSE UNION {
                IF d
                THEN {[sel EXCEPT !.i = @ + 1, !.seenDown = @ \cup {sel.i}]}
                ELSE PrimaryPolicy([sel EXCEPT !.upAt = sel.i], policy, spray, Len(hosts))
                : d \in Down(hosts[sel.i])}
    /\ UNCHANGED <<hosts, transport, cfgVars, lifeVars, inflight, lastProbe, aged, streak, ex, tls>>

\* The all-down scan looks at one host: past the end every host was down; a
\* host that is not down ends the scan and hands over to the primary policy.
SelectScan ==
    /\ sel.pc = "scan"
    /\ sel' \in
        IF sel.i > Len(hosts)
        THEN SprayOrNil(sel, spray, Len(hosts))
        ELSE UNION {
                IF d
                THEN {[sel EXCEPT !.i = @ + 1, !.seenDown = @ \cup {sel.i}]}
                ELSE PrimaryPolicy([sel EXCEPT !.upAt = sel.i], policy, spray, Len(hosts))
                : d \in Down(hosts[sel.i])}
    /\ UNCHANGED <<hosts, transport, cfgVars, lifeVars, inflight, lastProbe, aged, streak, ex, tls>>

\* The default Random policy looks at one host, or has seen them all.
SelectRandom ==
    /\ sel.pc = "random"
    /\ sel' \in
        IF sel.i > Len(hosts)
        THEN PolicyOrSpray(sel, sel.pick, spray, Len(hosts))
        ELSE UNION {
                IF d
                THEN {[sel EXCEPT !.i = @ + 1]}
                ELSE {[sel EXCEPT !.i = @ + 1, !.up = @ \cup {sel.i}, !.pick = p] :
                        p \in RandomPicks(sel.pick, sel.i)}
                : d \in Down(hosts[sel.i])}
    /\ UNCHANGED <<hosts, transport, cfgVars, lifeVars, inflight, lastProbe, aged, streak, ex, tls>>

\* Select returns to its caller.
SelectReturn ==
    /\ sel.pc = "done"
    /\ sel' = SelIdle
    /\ UNCHANGED <<hosts, transport, cfgVars, lifeVars, inflight, lastProbe, aged, streak, ex, tls>>

(* --------------------------- memory accesses --------------------------- *)

\* One access of a goroutine to a field of host h (of the HealthCheck for
\* h = NoHost): write or read, through sync/atomic or plain.
Access(h, field, write, atomic) ==
    [h |-> h, field |-> field, write |-> write, atomic |-> atomic]

\* Check with a plain uh.fails++ / uh.fails = 0 in place of the atomics.
CheckAccessesPlain(h) ==
    {Access(h, "c", FALSE, FALSE), Access(h, "addr", FALSE, FALSE),
     Access(h, "fails", TRUE, FALSE)}

\* Check and send: uh.c.Net, uh.c.Exchange and uh.addr are read, uh.fails is
\* written by atomic.AddUint32 or atomic.StoreUint32.
CheckAccesses(h) ==
    {Access(h, "c", FALSE, FALSE), Access(h, "addr", FALSE, FALSE),
     Access(h, "fails", TRUE, TRUE)}

\* Down: uh.downFunc is read, and uh.fails by atomic.LoadUint32 (a downFunc
\* keeps to the same fields, reading).
DownAccesses(h) ==
    {Access(h, "downFunc", FALSE, FALSE), Access(h, "addr", FALSE, FALSE),
     Access(h, "fails", FALSE, TRUE)}

\* Select: hc.hosts, hc.spray and hc.policy are read, and Down() is called
\* on the host the call has come to.
SelectAccesses(s, n) ==
    {Access(NoHost, "hosts", FALSE, FALSE), Access(NoHost, "spray", FALSE, FALSE),
     Access(NoHost, "policy", FALSE, FALSE)}
    \cup (IF s.pc \in {"scan", "random"} /\ s.i <= n THEN DownAccesses(s.i) ELSE {})
    \cup (IF s.pc = "idle" /\ n = 1 THEN DownAccesses(1) ELSE {})

\* healthCheck: ranges over hc.hosts.
WorkerAccesses ==
    {Access(NoHost, "hosts", FALSE, FALSE)}

\* The goroutines that are running: the Check goroutines in flight, the worker
\* in its loop and the request goroutine in Select.
Goroutines ==
    {<<"Check", h, cyc>> : h \in Pool, cyc \in 1..(MaxTicks + 1)}
    \cup {<<"worker", NoHost, 0>>, <<"Select", NoHost, 0>>}

Running(g) ==
    CASE g[1] = "Check"  -> g[3] \in inflight[g[2]]
      [] g[1] = "worker" -> worker \in {"spawned", "loop"}
      [] OTHER           -> sel.pc # "done"

AccessesOf(g) ==
    CASE g[1] = "Check"  -> CheckAccesses(g[2])
      [] g[1] = "worker" -> WorkerAccesses
      [] OTHER           -> SelectAccesses(sel, Len(hosts))

\* Go's data race: two goroutines access the same variable, one of them
\* writes, and the accesses are not both atomic.
Races(A, B) ==
    \E a \in A, b \in B :
        /\ a.h = b.h /\ a.field = b.field
        /\ a.write \/ b.write
        /\ ~(a.atomic /\ b.atomic)

(* ----------------------- Exchange and SetTLSConfig ---------------------- *)

\* An Exchange call: asked is the protocol passed to Dial, proto what Dial's
\* switch resolved, seen the Transport's tlsConfig that switch read, cfg the
\* tlsConfig handed to the TLS dial ("none" for a dial without TLS), exit how
\* the last call ended.
ExIdle ==
    [pc |-> "idle", asked |-> "", proto |-> "", seen |-> Nil, cfg |-> "none",
     exit |-> "none"]

\* state.Proto(): the protocol the request came in on.
Protos == {"udp", "tcp"}

\* Dial, second half: the config DialTimeoutWithTLS is given, read from the
\* Transport again; DialTimeout takes none.
DialConfig(t, proto) ==
    IF proto = "tcp-tls" THEN t.tlsConfig ELSE "none"

\* Exchange: uh.Dial(state.Proto()), up to the end of Dial's switch.  The
\* request goroutine has its Select behind it.
ExchangeDial ==
    /\ ex.pc = "idle"
    /\ sel.pc = "idle"
    /\ \E h \in Pool, proto \in Protos :
        ex' = [ExIdle EXCEPT !.pc = "dial", !.asked = proto,
                             !.proto = DialProto(transport, proto),
                             !.seen = transport.tlsConfig]
    /\ UNCHANGED <<hosts, transport, cfgVars, lifeVars, inflight, lastProbe, aged,
                   streak, sel, tls>>

\* Exchange counting a dial error as a failure of the host.
ExchangeConnectCounts ==
    /\ ex.pc = "dial"
    /\ \E h \in Pool, ok \in BOOLEAN :
        /\ ex' = IF ok
                 THEN [ex EXCEPT !.pc = "conn", !.cfg = DialConfig(transport, ex.proto)]
                 ELSE [ExIdle EXCEPT !.exit = "dialErr"]
        /\ hosts' = IF ok THEN hosts
                    ELSE [hosts EXCEPT ![h].fails = AddUint32(@, U32One)]
    /\ UNCHANGED <<transport, cfgVars, lifeVars, inflight, lastProbe, aged, streak,
                   sel, tls>>

\* Exchange: the dial itself fails (Exchange returns the error) or gives a
\* connection.
ExchangeConnect ==
    /\ ex.pc = "dial"
    /\ \E ok \in BOOLEAN :
        ex' = IF ok
              THEN [ex EXCEPT !.pc = "conn", !.cfg = DialConfig(transport, ex.proto)]
              ELSE [ExIdle EXCEPT !.exit = "dialErr"]
    /\ UNCHANGED <<hosts, transport, cfgVars, lifeVars, inflight, lastProbe, aged,
                   streak, sel, tls>>

\* Exchange: conn.WriteMsg fails (Exchange returns the error) or not.
ExchangeWrite ==
    /\ ex.pc = "conn"
    /\ \E ok \in BOOLEAN :
        ex' = IF ok THEN [ExIdle EXCEPT !.pc = "sent"] ELSE [ExIdle EXCEPT !.exit = "writeErr"]
    /\ UNCHANGED <<hosts, transport, cfgVars, lifeVars, inflight, lastProbe, aged,
                   streak, sel, tls>>

\* Exchange: conn.ReadMsg fails or gives the response; Exchange returns either.
ExchangeRead ==
    /\ ex.pc = "sent"
    /\ \E ok \in BOOLEAN :
        ex' = [ExIdle EXCEPT !.exit = IF ok THEN "ok" ELSE "readErr"]
    /\ UNCHANGED <<hosts, transport, cfgVars, lifeVars, inflight, lastProbe, aged,
                   streak, sel, tls>>

TLSConfigs == {Nil, "tlsA"}

\* A SetTLSConfig call: which of its three writes comes next, on which host,
\* with which config.
TLSIdle == [pc |-> "idle", h |-> NoHost, config |-> Nil]

\* SetTLSConfig is called on a host: uh.c.Net = "tcp-tls".  Nothing orders its
\* writes with the reads of other goroutines.
SetTLSConfig ==
    /\ tls.pc = "idle"
    /\ \E h \in Pool, config \in TLSConfigs :
        /\ tls' = [pc |-> "client", h |-> h, config |-> config]
        /\ hosts' = [hosts EXCEPT ![h] = SetTLSConfigNet(@)]
    /\ UNCHANGED <<transport, cfgVars, lifeVars, inflight, lastProbe, aged, streak,
                   sel, ex>>

\* SetTLSConfig: uh.c.TLSConfig = config.
SetTLSConfigInstall ==
    /\ tls.pc = "client"
    /\ tls' = [tls EXCEPT !.pc = "shared"]
    /\ hosts' = [hosts EXCEPT ![tls.h] = SetTLSConfigClient(@, tls.config)]
    /\ UNCHANGED <<transport, cfgVars, lifeVars, inflight, lastProbe, aged, streak,
                   sel, ex>>

\* SetTLSConfig: uh.transport.tlsConfig = config, and the return.
SetTLSConfigShare ==
    /\ tls.pc = "shared"
    /\ tls' = TLSIdle
    /\ transport' = SetTLSConfigTransport(transport, tls.config)
    /\ UNCHANGED <<hosts, cfgVars, lifeVars, inflight, lastProbe, aged, streak,
                   sel, ex>>

(* --------------------------- specifications ---------------------------- *)

NoProbe == [err |-> FALSE, msg |-> NilMsg, ret |-> FALSE, late |-> FALSE]

\* The state right after construction, for a pool and a configuration.
InitRun ==
    /\ life = "new"
    /\ stopChan = Nil
    /\ wg = 0
    /\ worker = "none"
    /\ workers = 0
    /\ tickerC = FALSE
    /\ fired = 0
    /\ cycles = 0
    /\ inflight = [h \in Pool |-> {}]
    /\ lastProbe = NoProbe
    /\ aged = FALSE
    /\ streak = [h \in Pool |-> CountZero]
    /\ sel = SelIdle
    /\ ex = ExIdle
    /\ tls = TLSIdle

Pools(sizes) ==
    UNION {[1..n -> {NewHost(Nil), NewHost("custom")}] : n \in sizes}

\* Every operation at once, on a pool of two hosts with the default down
\* predicate and policies, the first unreachable, the second reachable.
Init ==
    /\ hosts \in Pools({2})
    /\ \A h \in Pool : hosts[h].downFunc = Nil
    /\ policy = Nil
    /\ spray = Nil
    /\ maxFails = 1
    /\ checkInterval = 1
    /\ transport = [forceTcp |-> FALSE, preferUdp |-> FALSE, tlsConfig |-> Nil]
    /\ reach = <<"dead", "alive">>
    /\ InitRun

\* Selection: every pool size, down predicate, policy, spray and interval.
InitSelect ==
    /\ hosts \in Pools(0..MaxHosts)
    /\ policy \in {Nil, "custom"}
    /\ spray \in {Nil, "Spray"}
    /\ maxFails = 1
    /\ checkInterval \in {0, 1}
    /\ transport = [forceTcp |-> FALSE, preferUdp |-> FALSE, tlsConfig |-> Nil]
    /\ reach = [h \in Pool |-> "updown"]
    /\ InitRun

\* Probing: hosts whose probes can end in every way c.Exchange allows.
InitProbe ==
    /\ hosts \in Pools(1..MaxHosts)
    /\ \A h \in Pool : hosts[h].downFunc = Nil
    /\ policy = Nil
    /\ spray = Nil
    /\ maxFails = 1
    /\ checkInterval \in {0, 1}
    /\ transport = [forceTcp |-> FALSE, preferUdp |-> FALSE, tlsConfig |-> Nil]
    /\ reach = [h \in Pool |-> "flaky"]
    /\ InitRun

\* The prober: the owner's Start and Stop, the worker and the Check goroutines.
Prober ==
    \/ Start
    \/ StopClose
    \/ StopWait
    \/ WorkerInit
    \/ Tick
    \/ WorkerTick
    \/ WorkerStop
    \/ \E h \in Pool : Check(h)

\* The prober over an outage long enough for a counter to come round.
ProberAged == Prober \/ LongOutage

\* A request goroutine calling Select.
Selecting ==
    \/ SelectCall
    \/ SelectScan
    \/ SelectRandom
    \/ SelectReturn

\* Request goroutines calling Exchange, and a caller of SetTLSConfig.
Traffic ==
    \/ ExchangeDial
    \/ ExchangeConnect
    \/ ExchangeWrite
    \/ ExchangeRead
    \/ SetTLSConfig
    \/ SetTLSConfigInstall
    \/ SetTLSConfigShare

Next == Prober \/ Selecting \/ Traffic

Spec == Init /\ [][Next]_vars

NextSelect == Prober \/ Selecting

SpecSelect == InitSelect /\ [][NextSelect]_vars

SpecProbe == InitProbe /\ [][ProberAged]_vars

\* A pool of one host, with or without a downFunc, under every policy and
\* spray and a maxFails of 1 and of 3, probed over a long outage while Select
\* is called on it.
InitSingle ==
    /\ hosts \in Pools({1})
    /\ policy \in {Nil, "custom"}
    /\ spray \in {Nil, "Spray"}
    /\ maxFails \in {1, 3}
    /\ checkInterval \in {0, 1}
    /\ transport = [forceTcp |-> FALSE, preferUdp |-> FALSE, tlsConfig |-> Nil]
    /\ reach = [h \in Pool |-> "updown"]
    /\ InitRun

NextSingle == ProberAged \/ SelectCall \/ SelectReturn

SpecSingle == InitSingle /\ [][NextSingle]_vars

\* Requests against a running prober during an outage: pools of every size,
\* every host unreachable, the default down predicate and the default policy,
\* with and without spray.
InitConc ==
    /\ hosts \in Pools(0..MaxHosts)
    /\ \A h \in Pool : hosts[h].downFunc = Nil
    /\ policy = Nil
    /\ spray \in {Nil, "Spray"}
    /\ maxFails = 1
    /\ checkInterval = 1
    /\ transport = [forceTcp |-> FALSE, preferUdp |-> FALSE, tlsConfig |-> Nil]
    /\ reach = [h \in Pool |-> "dead"]
    /\ InitRun

SpecConc == InitConc /\ [][NextSelect]_vars

\* Dialling: every setting of forceTcp and preferUdp, no TLS config to begin
\* with, Exchange calls and a caller of SetTLSConfig.
InitDial ==
    /\ hosts \in Pools(1..MaxHosts)
    /\ \A h \in Pool : hosts[h].downFunc = Nil
    /\ policy = Nil
    /\ spray = Nil
    /\ maxFails = 1
    /\ checkInterval = 1
    /\ transport \in [forceTcp : BOOLEAN, preferUdp : BOOLEAN, tlsConfig : {Nil}]
    /\ reach = [h \in Pool |-> "updown"]
    /\ InitRun

SpecDial == InitDial /\ [][Traffic]_vars

\* Shutdown: the Go scheduler runs every runnable goroutine, and select takes
\* each ready case with positive probability, so the worker's start, its stop
\* case and the return of wg.Wait cannot be put off for ever.
InitLive ==
    /\ hosts \in Pools(1..MaxHosts)
    /\ \A h \in Pool : hosts[h].downFunc = Nil
    /\ policy = Nil
    /\ spray = Nil
    /\ maxFails = 1
    /\ checkInterval \in {0, 1}
    /\ transport = [forceTcp |-> FALSE, preferUdp |-> FALSE, tlsConfig |-> Nil]
    /\ reach = [h \in Pool |-> "updown"]
    /\ InitRun

SpecLive ==
    /\ InitLive
    /\ [][Prober]_vars
    /\ WF_vars(WorkerInit)
    /\ WF_vars(WorkerStop)
    /\ WF_vars(StopWait)

\* End to end: pool [A, B, C], A and B unreachable, C reachable, a positive
\* interval, no downFunc, no primary policy, no spray.
InitE2E ==
    /\ hosts = <<NewHost(Nil), NewHost(Nil), NewHost(Nil)>>
    /\ policy = Nil
    /\ spray = Nil
    /\ maxFails = 1
    /\ checkInterval = 1
    /\ transport = [forceTcp |-> FALSE, preferUdp |-> FALSE, tlsConfig |-> Nil]
    /\ reach = <<"dead", "dead", "alive">>
    /\ InitRun

NextE2E == ProberAged \/ Selecting

SpecE2E == InitE2E /\ [][NextE2E]_vars

(* ------------------------------- claims -------------------------------- *)

\* C1: with a pool of one host, Select returns nil exactly when its call of
\* Down() on that host returned true and no spray policy is configured; in
\* every other case it returns that host, and spray.Select is not called.
SingleHostSelect ==
    (sel.pc = "done" /\ Len(hosts) = 1) =>
        /\ sel.result = NoHost <=> (sel.obs /\ spray = Nil)
        /\ sel.result # NoHost => sel.result = 1
        /\ ~sel.sprayCalled
        /\ sel.primary = "none"

\* The quirk of C1: the only host is down by its counter, a spray policy is
\* configured, and Select returned the host.
SingleHostSelectWitness ==
    /\ sel.pc = "done"
    /\ Len(hosts) = 1
    /\ hosts[1].downFunc = Nil
    /\ hosts[1].fails # U32Zero
    /\ sel.obs
    /\ spray # Nil
    /\ sel.result = 1

\* C2: with two or more hosts, all of which the scan saw down, Select returns
\* what spray.Select returned over the full pool when a spray policy is
\* configured and nil when none is; the primary policy is not called.
AllDownSelect ==
    (sel.pc = "done" /\ Len(hosts) >= 2 /\ sel.seenDown = Pool) =>
        /\ sel.primary = "none"
        /\ sel.pick = NoHost
        /\ spray = Nil => (sel.result = NoHost /\ ~sel.sprayCalled)
        /\ spray # Nil => (sel.sprayCalled /\ sel.result = sel.sprayPick)

\* C2's case: every host is down by its counter, and Select returned spray's pick.
AllDownSelectWitness ==
    /\ sel.pc = "done"
    /\ Len(hosts) >= 2
    /\ sel.seenDown = Pool
    /\ \A h \in Pool : hosts[h].downFunc = Nil /\ hosts[h].fails # U32Zero
    /\ spray # Nil
    /\ sel.result \in Pool

\* C3: with a pool of another size than one in which the scan saw a host not
\* down, Select calls the primary policy (Random when none is configured) and
\* returns its host if it returned one (for Random, a host Random saw not
\* down); if it returned nil, Select returns spray's pick when a spray policy
\* is configured, else nil.
PrimarySelect ==
    (sel.pc = "done" /\ Len(hosts) # 1 /\ sel.upAt # NoHost) =>
        /\ sel.primary = IF policy = Nil THEN "Random" ELSE "custom"
        /\ sel.pick # NoHost => (sel.result = sel.pick /\ ~sel.sprayCalled)
        /\ (sel.pick = NoHost /\ spray = Nil) => (sel.result = NoHost /\ ~sel.sprayCalled)
        /\ (sel.pick = NoHost /\ spray # Nil) =>
                (sel.sprayCalled /\ sel.result = sel.sprayPick)
        /\ (policy = Nil /\ sel.pick # NoHost) => sel.pick \in sel.up

\* C3's race: the scan saw a host not down, probes then failed, Random found
\* every host down and Select fell back to spray.
PrimarySelectWitness ==
    /\ sel.pc = "done"
    /\ Len(hosts) >= 2
    /\ \A h \in Pool : hosts[h].downFunc = Nil
    /\ sel.upAt # NoHost
    /\ policy = Nil
    /\ sel.primary = "Random"
    /\ sel.pick = NoHost
    /\ spray # Nil
    /\ sel.result \in Pool

\* C4: a host without a downFunc is not down while fails = 0 and down once
\* fails >= 1, whatever hc.maxFails is; a Select call on a pool of one such
\* host observes exactly that.
DownDefaultState ==
    \A h \in Pool :
        hosts[h].downFunc = Nil =>
            /\ hosts[h].fails = U32Zero => Down(hosts[h]) = {FALSE}
            /\ hosts[h].fails # U32Zero => Down(hosts[h]) = {TRUE}

DownDefaultObserved ==
    (/\ sel.pc = "idle"
     /\ sel'.pc = "done"
     /\ Len(hosts) = 1
     /\ hosts[1].downFunc = Nil) => (sel'.obs <=> hosts[1].fails # U32Zero)

DownDefault ==
    []DownDefaultState /\ [][DownDefaultObserved]_vars

\* C4's case: one failure, below a maxFails of 3, and Select saw the host down.
DownDefaultWitness ==
    /\ Len(hosts) = 1
    /\ hosts[1].downFunc = Nil
    /\ maxFails = 3
    /\ hosts[1].fails = U32One
    /\ sel.pc = "done"
    /\ sel.obs

\* A step in which the Check goroutine of host h runs to its end.
CheckStep(h) ==
    inflight'[h] # inflight[h] /\ inflight'[h] \subseteq inflight[h]

\* C5: a Check classified as success stores exactly 0 in its host's fails,
\* whatever it held; a Check classified as failure adds exactly 1 to it (the
\* uint32 addition of atomic.AddUint32); no other host's fields change, with
\* any number of Checks of the same and other hosts in flight.
CheckWrites ==
    [][\A h \in Pool :
        CheckStep(h) =>
            /\ ~lastProbe'.ret => hosts'[h].fails = U32Zero
            /\ lastProbe'.ret => hosts'[h].fails = U32Add(hosts[h].fails, U32One)
            /\ \A g \in Pool \ {h} : hosts'[g] = hosts[g]
            /\ hosts'[h].downFunc = hosts[h].downFunc /\ hosts'[h].c = hosts[h].c]_vars

\* C5's case: Checks of two cycles overlapped; host 1 failed twice, and the
\* last Check to finish succeeded on host 2 and left host 1's count alone.
CheckWritesWitness ==
    /\ Len(hosts) = 2
    /\ cycles = 2
    /\ \A h \in Pool : inflight[h] = {}
    /\ hosts[1].fails = U32(0, 2)
    /\ hosts[2].fails = U32Zero
    /\ ~lastProbe.ret
    /\ ~aged

\* C6: once Start has been called, a call of Stop returns: close(stopChan)
\* leads to the return of wg.Wait, with the counter at zero, whether a worker
\* was spawned or not.
StopReturns ==
    /\ (life = "stopping") ~> (life = "stopped")
    /\ [](life = "stopped" => wg = 0)

\* C6's case: Stop has returned after a worker exited with a tick pending and
\* probes still in flight.
StopReturnsWitness ==
    /\ life = "stopped"
    /\ checkInterval # 0
    /\ worker = "exited"
    /\ wg = 0
    /\ tickerC
    /\ \E h \in Pool : inflight[h] # {}

\* Ticks the worker has taken from ticker.C.
TicksTaken ==
    fired - (IF tickerC THEN 1 ELSE 0)

\* The part of C7 that holds as stated: Start spawns one worker when
\* checkInterval # 0 and none (so no probe, ever) when it is 0; the worker
\* runs one cycle before any tick and one per tick it takes.
WorkerCyclesState ==
    /\ workers = (IF life # "new" /\ checkInterval # 0 THEN 1 ELSE 0)
    /\ (worker = "none") <=> (workers = 0)
    /\ checkInterval = 0 => (cycles = 0 /\ \A h \in Pool : inflight[h] = {})
    /\ worker \in {"none", "spawned"} => (cycles = 0 /\ fired = 0)
    /\ worker \in {"loop", "exited"} => cycles = 1 + TicksTaken

\* C7 as amended: the worker leaves only by the stop case of its select, and
\* dispatches no cycle after it has left.
WorkerCycles ==
    /\ []WorkerCyclesState
    /\ [][worker = "exited" => (cycles' = cycles /\ worker' = "exited")]_vars
    /\ [][(worker # "exited" /\ worker' = "exited") => stopChan = "closed"]_vars

\* C7's case: an initial cycle, one cycle for the one tick taken, then the exit.
WorkerCyclesWitness ==
    /\ worker = "exited"
    /\ workers = 1
    /\ cycles = 2
    /\ fired = 1
    /\ ~tickerC

\* C7 as stated: in addition, no cycle is dispatched once close(stopChan) has
\* run.
WorkerCyclesNoneAfterClose ==
    /\ []WorkerCyclesState
    /\ [][stopChan = "closed" => cycles' = cycles]_vars

\* A step of an operation other than Check.
OtherStep ==
    \/ ex' # ex
    \/ sel' # sel
    \/ transport' # transport
    \/ \E h \in Pool : hosts'[h].c # hosts[h].c
    \/ life' # life
    \/ worker' # worker
    \/ cycles' # cycles
    \/ fired' # fired

\* C8: Exchange leaves every host's fails as it was on each of its ways out,
\* and so do Dial, Down, Select, SetTLSConfig, Start, Stop and the worker:
\* fails changes only in steps of Check.
OnlyCheckWrites ==
    [][(\E h \in Pool : hosts'[h].fails # hosts[h].fails) =>
            /\ ~OtherStep
            /\ \A h \in Pool : hosts'[h].fails # hosts[h].fails => CheckStep(h)]_vars

\* C8's case: an Exchange ended in a read error, SetTLSConfig and a Select
\* have run, and the first host's count of one failure stands.
OnlyCheckWritesWitness ==
    /\ ex.pc = "idle"
    /\ ex.exit = "readErr"
    /\ transport.tlsConfig # Nil
    /\ sel.pc = "done"
    /\ hosts[1].fails = U32One
    /\ \A h \in Pool : inflight[h] = {}

\* The classification C9 states: an error, and no message that is a response
\* or has the query opcode.
ProbeFailed(err, msg) ==
    err /\ ~(msg # NilMsg /\ (msg.Response \/ msg.Opcode = "Query"))

\* C9: Check returns an error and adds 1 to fails exactly when c.Exchange
\* returned an error without a non-nil message that is a response or has the
\* query opcode; every other outcome stores 0.
ProbeClassified ==
    /\ [](lastProbe.ret <=> ProbeFailed(lastProbe.err, lastProbe.msg))
    /\ [][\A h \in Pool :
            CheckStep(h) =>
                hosts'[h].fails =
                    IF ProbeFailed(lastProbe'.err, lastProbe'.msg)
                    THEN U32Add(hosts[h].fails, U32One)
                    ELSE U32Zero]_vars

\* C9's case: after a long outage, an error came with a message that is no
\* response but has the query opcode; the error was cleared and fails reset.
ProbeClassifiedWitness ==
    /\ Len(hosts) = 1
    /\ lastProbe.err
    /\ lastProbe.msg # NilMsg
    /\ ~lastProbe.msg.Response
    /\ lastProbe.msg.Opcode = "Query"
    /\ ~lastProbe.ret
    /\ hosts[1].fails = U32Zero
    /\ cycles = 2
    /\ inflight[1] = {}
    /\ aged

\* C10: in the end-to-end run, once every Check of the first cycle has
\* finished, A.fails >= 1, B.fails >= 1 and C.fails = 0 hold for good, and a
\* Select called from then on returns C.
EndToEnd ==
    /\ FirstCycleDone =>
        /\ hosts[1].fails # U32Zero
        /\ hosts[2].fails # U32Zero
        /\ hosts[3].fails = U32Zero
    /\ (sel.pc = "done" /\ sel.after) => sel.result = 3

\* C10 short of 2^32 failed probes of a host: the same, while no long outage
\* has been run through.
EndToEndBeforeWrap ==
    ~aged => EndToEnd

\* A SetTLSConfig call has returned and none is running.
TLSConfigured ==
    /\ tls.pc = "idle"
    /\ \E h \in Pool : hosts[h].c.Net = "tcp-tls"

\* C11: once SetTLSConfig(config) has returned, whatever config was, a Dial
\* on any host of the pool resolves to tcp-tls, whatever protocol the caller
\* passed and whatever forceTcp and preferUdp are, and dials with that config.
DialsTLSAfterSet ==
    /\ [][(TLSConfigured /\ ex.pc = "idle" /\ ex'.pc = "dial") =>
            ex'.proto = "tcp-tls"]_vars
    /\ [][(TLSConfigured /\ ex.pc = "dial" /\ ex'.pc = "conn") =>
            ex'.cfg = transport.tlsConfig]_vars

\* C11 for the configs that are not nil: the same, after a SetTLSConfig that
\* left a config in the Transport.
DialsTLSAfterSetNotNil ==
    /\ [][(TLSConfigured /\ transport.tlsConfig # Nil /\ ex.pc = "idle" /\ ex'.pc = "dial") =>
            ex'.proto = "tcp-tls"]_vars
    /\ [][(TLSConfigured /\ transport.tlsConfig # Nil /\ ex.pc = "dial" /\ ex'.pc = "conn"
           /\ ex.seen = transport.tlsConfig) =>
            (ex'.proto = "tcp-tls" /\ ex'.cfg = transport.tlsConfig)]_vars

\* The call of Select that is under way can take its next step.
SelectNeverBlocked ==
    /\ (sel.pc = "idle" /\ ex.pc = "idle") => ENABLED SelectCall
    /\ sel.pc = "scan" => ENABLED SelectScan
    /\ sel.pc = "random" => ENABLED SelectRandom
    /\ sel.pc = "done" => ENABLED SelectReturn
    /\ sel.pc \in {"scan", "random"} => sel.i \in 1..(Len(hosts) + 1)

\* A step of Select moves on: to the next host, from the scan to the policy,
\* or to its return.
SelectAdvances ==
    \/ sel'.pc = "done"
    \/ sel.pc = "done" /\ sel'.pc = "idle"
    \/ sel.pc = "idle" /\ sel'.pc = "scan"
    \/ sel.pc = "scan" /\ sel'.pc = "random"
    \/ sel'.pc = sel.pc /\ sel'.i = sel.i + 1

\* C12: in every state of the owner and the worker and with any probes in
\* flight, a Select call can take each of its steps, of which there are at
\* most two per host; no step of it starts a Dial, an Exchange or a Check or
\* changes a host, the Transport, the pool or the lifecycle.
SelectReadsOnly ==
    /\ []SelectNeverBlocked
    /\ [][sel' # sel =>
            /\ SelectAdvances
            /\ hosts' = hosts
            /\ transport' = transport
            /\ ex' = ex
            /\ inflight' = inflight
            /\ lastProbe' = lastProbe
            /\ UNCHANGED lifeVars]_vars

\* C12's case: a Select went through scan and Random and returned a host while
\* Stop was waiting for the worker and probes of both cycles were in flight.
SelectReadsOnlyWitness ==
    /\ sel.pc = "done"
    /\ sel.primary = "Random"
    /\ sel.result \in Pool
    /\ life = "stopping"
    /\ worker = "loop"
    /\ cycles = 2
    /\ \E h \in Pool : inflight[h] = {1, 2}

\* Select calls Down() on the only host of the pool.
DownCalled ==
    sel.pc = "idle" /\ sel'.pc = "done" /\ Len(hosts) = 1

\* C13 as amended: with a downFunc, Down() returns what the downFunc returned,
\* true or false, whatever fails is; only without one does it return fails > 0.
DownDispatch ==
    [][DownCalled =>
        /\ (sel'.df = "none") <=> (hosts[1].downFunc = Nil)
        /\ hosts[1].downFunc # Nil => (sel'.obs <=> sel'.df = "true")
        /\ hosts[1].downFunc = Nil => (sel'.obs <=> hosts[1].fails # U32Zero)]_vars

\* C13's case: the downFunc returned false for a host whose fails is 1, and
\* Down() returned false: Select handed the host out.
DownDispatchWitness ==
    /\ sel.pc = "done"
    /\ Len(hosts) = 1
    /\ hosts[1].downFunc # Nil
    /\ sel.df = "false"
    /\ ~sel.obs
    /\ sel.result = 1
    /\ spray = Nil
    /\ hosts[1].fails = U32One
    /\ inflight[1] = {}
    /\ cycles = 1

\* C13 as stated: Down() is true when the downFunc returned true, and in every
\* other case, the downFunc returning false included, true exactly when
\* fails > 0.
DownFallsBack ==
    [][DownCalled =>
        /\ sel'.df = "true" => sel'.obs
        /\ sel'.df # "true" => (sel'.obs <=> hosts[1].fails # U32Zero)]_vars

\* C14: no two goroutines among the Checks in flight, the worker and a caller
\* of Select race: the one variable a Check writes is its host's fails, by an
\* atomic, and every other access to fails is atomic as well.
NoDataRace ==
    LET running == {g \in Goroutines : Running(g)}
    IN  \A g1 \in running :
            \A g2 \in running \ {g1} : ~Races(AccessesOf(g1), AccessesOf(g2))

\* C14's case: the Checks of one cycle are in flight on both hosts, a Check of
\* the cycle before is still running on host 1, and Select's scan has come to
\* host 1.
NoDataRaceWitness ==
    /\ Len(hosts) = 2
    /\ inflight[1] = {1, 2}
    /\ inflight[2] = {2}
    /\ sel.pc = "scan"
    /\ sel.i = 1
    /\ worker = "loop"

\* Strict precedence: TLS config, then forceTcp, then preferUdp, then the
\* caller's protocol.
Precedence(tlsSet, force, prefer, default) ==
    IF tlsSet THEN "tcp-tls"
    ELSE IF force THEN "tcp"
    ELSE IF prefer THEN "udp"
    ELSE default

\* C15: Dial resolves the protocol by that precedence, for every setting of
\* the Transport and every protocol a caller can pass, and so does every Dial
\* an Exchange makes.
DialPrecedence ==
    /\ [](\A t \in [forceTcp : BOOLEAN, preferUdp : BOOLEAN, tlsConfig : TLSConfigs],
             p \in Protos \cup {"tcp-tls"} :
                DialProto(t, p) = Precedence(t.tlsConfig # Nil, t.forceTcp, t.preferUdp, p))
    /\ [][(ex.pc = "idle" /\ ex'.pc = "dial") =>
            /\ ex'.asked \in Protos
            /\ ex'.proto = Precedence(transport.tlsConfig # Nil, transport.forceTcp,
                                      transport.preferUdp, ex'.asked)]_vars

\* C15's cases: with forceTcp and preferUdp both set, a caller asking for udp
\* is connected over tcp-tls once a TLS config is there.
DialPrecedenceWitness ==
    /\ ex.pc = "conn"
    /\ transport.forceTcp
    /\ transport.preferUdp
    /\ ex.asked = "udp"
    /\ ex.proto = "tcp-tls"
    /\ ex.cfg = "tlsA"

\* Nothing waits for a probe in flight: the worker can take a tick that is
\* there and the stop signal once it is given, Stop returns once the worker
\* is gone, and the probe itself can finish in whatever state the owner is.
ProbesDelayNothing ==
    /\ (worker = "loop" /\ tickerC) => ENABLED WorkerTick
    /\ (worker = "loop" /\ stopChan = "closed") => ENABLED WorkerStop
    /\ (life = "stopping" /\ worker \in {"none", "exited"}) => ENABLED StopWait
    /\ \A h \in Pool : inflight[h] # {} => ENABLED Check(h)

\* C16: a probe cycle starts one Check per host and waits for none of them;
\* probes in flight hold up neither the next cycle nor the return of Stop; a
\* Check that finishes after Stop has returned still writes its host's fails.
FireAndForget ==
    /\ []ProbesDelayNothing
    /\ [][cycles' # cycles =>
            /\ cycles' = cycles + 1
            /\ \A h \in Pool : cycles' \notin inflight[h]
            /\ \A h \in Pool : inflight'[h] = inflight[h] \cup {cycles'}
            /\ hosts' = hosts]_vars
    /\ [][\A h \in Pool :
            (CheckStep(h) /\ life = "stopped") =>
                /\ lastProbe'.late
                /\ hosts'[h].fails = CheckFails(hosts[h].fails, lastProbe'.err, lastProbe'.msg)]_vars

\* C16's case: the one probe of the one cycle of a single host failed after
\* Stop had returned, and the host's fails went from 0 to 1 then.
FireAndForgetWitness ==
    /\ Len(hosts) = 1
    /\ life = "stopped"
    /\ cycles = 1
    /\ inflight[1] = {}
    /\ lastProbe.late
    /\ lastProbe.ret
    /\ hosts[1].fails = U32One

\* Stop has returned: the worker, if Start spawned one, has returned too, and
\* the counter of the wait group is zero.
StoppedState ==
    life = "stopped" =>
        /\ stopChan = "closed"
        /\ wg = 0
        /\ worker = (IF workers > 0 THEN "exited" ELSE "none")
        /\ workers = StartSpawns(checkInterval)

\* C17: Stop returns only when the worker has exited: whenever Stop has
\* returned the worker (if any) is gone and the wait group is at zero, and no
\* cycle is dispatched from then on.
StopJoinsWorker ==
    /\ []StoppedState
    /\ [][(life # "stopped" /\ life' = "stopped") =>
            (life = "stopping" /\ worker \in {"none", "exited"} /\ wg = 0)]_vars
    /\ [][life = "stopped" =>
            /\ life' = "stopped"
            /\ worker' = worker
            /\ cycles' = cycles
            /\ \A h \in Pool : inflight'[h] \subseteq inflight[h]]_vars

\* C17's case: Stop has returned after a worker that ran the initial cycle
\* and one cycle for a tick, and a later tick lies unread in ticker.C.
StopJoinsWorkerWitness ==
    /\ life = "stopped"
    /\ workers = 1
    /\ worker = "exited"
    /\ wg = 0
    /\ cycles = 1
    /\ fired = 1
    /\ tickerC
    /\ \A h \in Pool : inflight[h] = {}

\* C18: fails of a host is the number of its Checks that failed since its
\* last Check that succeeded (or since construction), and a host without
\* downFunc is Down whenever that number is not zero.
FailsCountsStreak ==
    \A h \in Pool :
        /\ hosts[h].fails = streak[h]
        /\ (hosts[h].downFunc = Nil /\ streak[h] # CountZero) => DownOf(hosts[h], "none")

\* C18 short of 2^32 failed Checks in a row: the same, while no long outage
\* has been run through.
FailsCountsStreakBeforeWrap ==
    ~aged => FailsCountsStreak

\* A SetTLSConfig call is between its writes: the client of its host is in
\* tcp-tls mode, and the client's TLSConfig or the Transport's tlsConfig is
\* still the one from before the call.
SetTLSConfigTorn ==
    /\ tls.pc # "idle"
    /\ hosts[tls.h].c.Net = "tcp-tls"
    /\ \/ tls.pc = "client" /\ hosts[tls.h].c.TLSConfig # tls.config
       \/ transport.tlsConfig # tls.config

\* C19: the three writes of SetTLSConfig are one step for everyone else: no
\* Check of the host and no Dial of an Exchange runs between them, and a Dial
\* hands the TLS dial the config its switch has seen.
SetTLSConfigAtomic ==
    /\ [][SetTLSConfigTorn =>
            /\ ~CheckStep(tls.h)
            /\ ~(ex.pc = "idle" /\ ex'.pc = "dial")
            /\ ~(ex.pc = "dial" /\ ex'.pc = "conn")]_vars
    /\ [][(ex.pc = "dial" /\ ex'.pc = "conn" /\ ex.proto = "tcp-tls") =>
            ex'.cfg = ex.seen]_vars

\* What SetTLSConfig does keep: its writes come in program order, so once the
\* Transport holds the new config the client of the host holds it too.
SetTLSConfigOrder ==
    /\ tls.pc = "shared" =>
        (hosts[tls.h].c.Net = "tcp-tls" /\ hosts[tls.h].c.TLSConfig = tls.config)
    /\ tls.pc # "idle" => hosts[tls.h].c.Net = "tcp-tls"

\* C20: on an empty pool Select looks at no host (no Down(), no index into
\* the pool) and asks no primary policy; it returns nil when hc.spray is nil
\* and what hc.spray.Select returned otherwise.
EmptyPoolSelect ==
    Len(hosts) = 0 =>
        /\ sel.pc \in {"idle", "scan", "done"}
        /\ sel.pc = "scan" => sel.i > Len(hosts)
        /\ sel.df = "none" /\ sel.seenDown = {} /\ sel.upAt = NoHost
        /\ sel.primary = "none" /\ sel.up = {} /\ sel.pick = NoHost
        /\ sel.pc = "done" =>
            /\ spray = Nil => (sel.result = NoHost /\ ~sel.sprayCalled)
            /\ spray # Nil => (sel.sprayCalled /\ sel.result = sel.sprayPick)

\* C20's case: Select has come back from the spray policy on an empty pool,
\* with the worker in its loop after a cycle that had no host to probe.
EmptyPoolSelectWitness ==
    /\ Len(hosts) = 0
    /\ spray # Nil
    /\ sel.pc = "done"
    /\ sel.sprayCalled
    /\ sel.result = sel.sprayPick
    /\ worker = "loop"
    /\ cycles >= 1

====
